---- MODULE Spec2Model ----
(***************************************************************************)
(* Incremental mirroring crawler of ghost-static-site-generator:           *)
(* ConcurrentCrawler + SmartFetcher + CacheManager + GraphCache, driven by *)
(* generateStaticSite.  Strings are sequences of tokens: "/" and "." are   *)
(* the separators, every other token is a run of name characters without  *)
(* "/" or ".".  A URL is its pathname plus the value of its v= query ("",  *)
(* when it has no query), plus its host when it is not the source origin's *)
(* and its fragment when it has one.                                       *)
(***************************************************************************)
EXTENDS Integers, Sequences, FiniteSets, TLC

\* ------------------------------------------------------------------------
\* Bounds of the model
\* ------------------------------------------------------------------------
MaxN == 2            \* largest --concurrency value tried
MaxRuns == 2         \* generateStaticSite invocations in one behaviour
MaxEnvSteps == 1     \* operator / origin / clock events outside the runs

\* Program constants
MaxAgeDays == 30     \* cacheManager.clearOldEntries(30)

\* ------------------------------------------------------------------------
\* String helpers (String.prototype.startsWith / endsWith / substring)
\* ------------------------------------------------------------------------
StartsWith(s, p) == Len(p) <= Len(s) /\ SubSeq(s, 1, Len(p)) = p

EndsWith(s, p) == Len(p) <= Len(s) /\ SubSeq(s, Len(s) - Len(p) + 1, Len(s)) = p

DropLast(s, n) == SubSeq(s, 1, Len(s) - n)

DropFirst(s, n) == SubSeq(s, n + 1, Len(s))

Positions(s, t) == {i \in 1..Len(s) : s[i] = t}

MaxOf(S) == CHOOSE x \in S : \A y \in S : y <= x

Range(s) == {s[i] : i \in 1..Len(s)}

\* Paths are token sequences
Paths == Seq(STRING)

\* Tokens that consist of characters [a-f0-9] only.
HexTokens == {"ab", "404", "2024", "12", "2026", "02", "01"}

IsHex(t) == t \in HexTokens

IndexHtml == <<"index", ".", "html">>

\* The three raw-subtree prefixes, relative to the site root.
RawPrefixes ==
  { <<"content", "/", "files", "/">>,
    <<"content", "/", "media", "/">>,
    <<"content", "/", "images", "/">> }

IsExcluded[rel \in Paths] == \E p \in RawPrefixes : StartsWith(rel, p)

\* ------------------------------------------------------------------------
\* node:path (posix) - extname, basename, dirname
\* ------------------------------------------------------------------------
\* The path without its trailing slashes.
TrimSlashes[p \in Paths] ==
  LET keep == {i \in 1..Len(p) : p[i] # "/"}
  IN IF keep = {} THEN <<>> ELSE SubSeq(p, 1, MaxOf(keep))

\* The last segment of the path (trailing slashes ignored).
LastSegment[p \in Paths] ==
  LET t == TrimSlashes[p]
      sl == Positions(t, "/")
  IN IF sl = {} THEN t ELSE SubSeq(t, MaxOf(sl) + 1, Len(t))

\* path.extname: from the last "." of the last segment to its end; empty
\* when there is no ".", when the "." opens the segment, or for "..".
extname[p \in Paths] ==
  LET seg == LastSegment[p]
      dots == Positions(seg, ".")
  IN IF dots = {} THEN <<>>
     ELSE IF MaxOf(dots) = 1 \/ seg = <<".", ".">> THEN <<>>
     ELSE SubSeq(seg, MaxOf(dots), Len(seg))

\* path.basename(p, ext)
basename(p, ext) ==
  LET seg == LastSegment[p]
  IN IF ext # <<>> /\ EndsWith(seg, ext) /\ seg # ext
       THEN DropLast(seg, Len(ext)) ELSE seg

\* path.dirname(p) of a relative path, "" standing for "."
dirname[p \in Paths] ==
  LET t == TrimSlashes[p]
      sl == Positions(t, "/")
  IN IF sl = {} THEN <<>> ELSE SubSeq(t, 1, MaxOf(sl) - 1)

\* The directory dir and the directories above it, up to the root <<>>
Ancestors[dir \in Paths] ==
  IF dir = <<>> THEN {<<>>} ELSE {dir} \cup Ancestors[dirname[dir]]

\* fs.mkdirSync(dir, { recursive: true }) below the static directory
MkdirP(ds, dir) ==
  ds \cup {a \in Ancestors[dir] : a = <<>> \/ a[1] # ".."}

\* ------------------------------------------------------------------------
\* URLs
\* ------------------------------------------------------------------------
NoQuery == ""

Url(path, v) == [path |-> path, v |-> v]

\* URL strings: the absolute URLs of the site (a path and the value of the
\* v query parameter), absolute URLs of another host, URLs with a fragment,
\* the strings `new URL` cannot parse, and the marker of an exception that
\* left normalizeUrl
Urls ==
  [path : Paths, v : STRING] \cup [path : Paths, v : STRING, host : Paths]
    \cup [path : Paths, v : STRING, frag : STRING]
    \cup [raw : STRING] \cup [throw : BOOLEAN]

\* The request target of fetch(url): the fragment is not sent to the origin
Request(u) ==
  IF "frag" \in DOMAIN u THEN [path |-> u.path, v |-> u.v] ELSE u

\* `new URL(url)` succeeds
IsParseable(u) == "path" \in DOMAIN u

\* A TypeError leaves the function
Throw == [throw |-> TRUE]

\* A catch clause that lets the error through
normalizeUrlRethrows(url) == Throw

\* The catch clause of normalizeUrl: `return url`
normalizeUrlCatch(url) == url

\* ConcurrentCrawler.normalizeUrl: the pathname is rewritten, and urlObj.href
\* gives back the query and the fragment as they were
normalizeUrl[u \in Urls] ==
  IF ~IsParseable(u) THEN normalizeUrlCatch(u) ELSE
  LET p0 == u.path
      p1 == IF EndsWith(p0, <<"/">> \o IndexHtml) THEN DropLast(p0, 3) ELSE p0
      rel == IF StartsWith(p1, <<"/">>) THEN DropFirst(p1, 1) ELSE p1
      hasExtension == extname[p1] # <<>>
      p2 == IF ~EndsWith(p1, <<"/">>) /\ ~hasExtension /\ ~IsExcluded[rel]
              THEN p1 \o <<"/">> ELSE p1
  IN [u EXCEPT !.path = p2]

\* A v value whose characters include path separators: "/../../x"
UpUp == "/../../x"

\* The characters of searchParams.get('v'), split at the path separators
VersionTokens(v) ==
  IF v = UpUp THEN <<"/", "..", "/", "..", "/", "x">> ELSE <<v>>

\* The segments of a path, split at "/": segment k lies between the
\* (k-1)-th and the k-th separator
SplitSegs[p \in Paths] ==
  LET sl == Positions(p, "/")
      n == Cardinality(sl)
      cut(k) == IF k = 0 THEN 0
                ELSE IF k = n + 1 THEN Len(p) + 1
                ELSE CHOOSE i \in sl : Cardinality({j \in sl : j < i}) = k - 1
  IN [k \in 1..(n + 1) |-> SubSeq(p, cut(k - 1) + 1, cut(k) - 1)]

\* path.normalize: "" and "." segments vanish, ".." removes the segment
\* before it, or stays when nothing is left to remove
ResolveSegs[segs \in Seq(Paths), out \in Seq(Paths)] ==
  IF segs = <<>> THEN out
  ELSE LET g == Head(segs)
       IN IF g = <<>> \/ g = <<".">> THEN ResolveSegs[Tail(segs), out]
          ELSE IF g = <<"..">> /\ out # <<>> /\ out[Len(out)] # <<"..">>
            THEN ResolveSegs[Tail(segs), DropLast(out, 1)]
          ELSE ResolveSegs[Tail(segs), Append(out, g)]

JoinSegs[segs \in Seq(Paths)] ==
  IF segs = <<>> THEN <<>>
  ELSE IF Len(segs) = 1 THEN Head(segs)
  ELSE Head(segs) \o <<"/">> \o JoinSegs[Tail(segs)]

\* path.join(staticDir, pathname), relative to staticDir: a result that
\* starts with ".." lies outside the static directory
pathJoin[pathname \in Paths] == JoinSegs[ResolveSegs[SplitSegs[pathname], <<>>]]

\* A path relative to staticDir that stays inside it
UnderRoot(rel) == rel # <<>> /\ rel[1] # ".."

\* ConcurrentCrawler.urlToFilePath, relative to options.staticDir
urlToFilePath[u \in Urls] ==
  LET p0 == IF StartsWith(u.path, <<"/">>) THEN DropFirst(u.path, 1) ELSE u.path
      p1 == IF p0 = <<>> THEN IndexHtml ELSE p0
      p2 == IF EndsWith(p1, <<"/">>) THEN p1 \o IndexHtml ELSE p1
      p3 == IF extname[p2] = <<>> /\ ~IsExcluded[p2]
              THEN p2 \o <<"/">> \o IndexHtml ELSE p2
      ext == extname[p3]
      base == DropLast(p3, Len(ext))
  IN pathJoin[IF u.v # NoQuery THEN base \o <<".">> \o VersionTokens(u.v) \o ext
              ELSE p3]

\* The paths filePathToUrl refuses (post-processing output, hidden files).
IsIgnoredPath[rel \in Paths] ==
  \/ rel = <<"CNAME">>
  \/ rel = <<"404", ".", "html">>
  \/ rel = <<".", "DS_Store">>
  \/ rel = <<".", "gitignore">>
  \/ rel = <<"content", "/", "files", "/", "2024", "/", "12", "/", "deskew">>
  \/ StartsWith(rel, <<"2026", "/", "02", "/", "01", "/", "world-history-of-value", "/">>)
  \/ StartsWith(rel, <<".", "git", "/">>)
  \/ StartsWith(rel, <<"logs", "/">>)
  \/ (EndsWith(rel, <<".", "txt">>) /\ "/" \notin Range(rel))
  \/ \E i \in 1..(Len(rel) - 1) : rel[i] = "/" /\ rel[i + 1] = "."

None == [none |-> TRUE]

\* ConcurrentCrawler.filePathToUrl: the URL of a file, or None
filePathToUrl[rel \in Paths] ==
  IF IsIgnoredPath[rel] THEN None
  ELSE
    LET ext == extname[rel]
        baseName == basename(rel, ext)
        versionMatch == /\ ext # <<>>
                        /\ Len(baseName) >= 3
                        /\ IsHex(baseName[Len(baseName)])
                        /\ baseName[Len(baseName) - 1] = "."
        dir == dirname[rel]
        p0 == IF EndsWith(rel, <<"/">> \o IndexHtml) THEN DropLast(rel, 3)
              ELSE IF rel = IndexHtml THEN <<"/">> ELSE rel
        p1 == IF StartsWith(p0, <<"/">>) THEN p0 ELSE <<"/">> \o p0
        p2 == IF ~EndsWith(p1, <<"/">>) /\ extname[p1] = <<>>
                 /\ ~IsExcluded[DropFirst(p1, 1)]
              THEN p1 \o <<"/">> ELSE p1
    IN IF versionMatch
         THEN Url(<<"/">> \o (IF dir = <<>> THEN <<>> ELSE dir \o <<"/">>)
                    \o DropLast(baseName, 2) \o ext,
                  baseName[Len(baseName)])
         ELSE Url(p2, NoQuery)

\* ------------------------------------------------------------------------
\* The URLs of the modelled origin
\* ------------------------------------------------------------------------
Root == Url(<<"/">>, NoQuery)                                \* /
PageP == Url(<<"/", "p", "/">>, NoQuery)                     \* /p/
PageQ == Url(<<"/", "q", "/">>, NoQuery)                     \* /q/
Css1 == Url(<<"/", "s", ".", "css">>, "ab")                  \* /s.css?v=ab
Css2 == Url(<<"/", "s", ".", "ab", ".", "css">>, NoQuery)    \* /s.ab.css
Gone == Url(<<"/", "x", "/">>, NoQuery)                      \* /x/
CssUp == Url(<<"/", "s", ".", "css">>, UpUp)                  \* /s.css?v=/../../x
Hook == Url(<<"/", "webmentions", "/", "receive", "/">>, NoQuery)
Robots == Url(<<"/", "robots", ".", "txt">>, NoQuery)        \* /robots.txt
NotAUrl == [raw |-> "p"]                                     \* <loc>p</loc>

\* The sitemap documents and a page whose name starts like theirs
SitemapXml == Url(<<"/", "sitemap", ".", "xml">>, NoQuery)
SitemapPages == Url(<<"/", "sitemap-pages", ".", "xml">>, NoQuery)
SitemapPosts == Url(<<"/", "sitemap-posts", ".", "xml">>, NoQuery)
SitemapPosts1 == Url(<<"/", "sitemap-posts-1", ".", "xml">>, NoQuery)
SitemapGuide == Url(<<"/", "sitemap-guide", "/">>, NoQuery)

Rss == Url(<<"/", "rss", "/">>, NoQuery)                     \* /rss/

\* href="/p/#a" and href="/p/#b": one page, two fragments
PageFragA == [path |-> <<"/", "p", "/">>, v |-> NoQuery, frag |-> "a"]
PageFragB == [path |-> <<"/", "p", "/">>, v |-> NoQuery, frag |-> "b"]

\* /content/media/clip.mp4 and the thumbnail Ghost generates for it
Video == Url(<<"/", "content", "/", "media", "/", "clip", ".", "mp4">>, NoQuery)
VideoThumb ==
  Url(<<"/", "content", "/", "media", "/", "clip_thumb", ".", "jpg">>, NoQuery)

\* options.sourceDomain is https://test.com, without a trailing slash
SourceHost == <<"test", ".", "com">>

\* https://test.com.evil.org/e.css and https://cdn.net/c.css
LookAlike ==
  [path |-> <<"/", "e", ".", "css">>, v |-> NoQuery,
   host |-> <<"test", ".", "com", ".", "evil", ".", "org">>]
Cdn ==
  [path |-> <<"/", "c", ".", "css">>, v |-> NoQuery, host |-> <<"cdn", ".", "net">>]

\* The host of an absolute URL
HostOf(u) == IF "host" \in DOMAIN u THEN u.host ELSE SourceHost

\* Links as they stand in the documents, before normalizeUrl.
LinkP == Url(<<"/", "p">>, NoQuery)                          \* href="/p"
LinkRoot == Url(<<"/", "index", ".", "html">>, NoQuery)      \* href="/index.html"

\* generateStaticSite: rootUrl and explicitUrls (one asset stands for the list)
RootUrl == Root

ExplicitUrls == <<Robots>>

\* options.allowlist404 of generateStaticSite
Allowlist404 == { <<"/", "webmentions", "/", "receive", "/">> }

\* String.prototype.includes on token strings
Includes(s, p) ==
  \E i \in 0..(Len(s) - Len(p)) : SubSeq(s, i + 1, i + Len(p)) = p

\* ------------------------------------------------------------------------
\* The origin: documents and sites
\* ------------------------------------------------------------------------
NoVal == ""

\* A document: content type, the same-origin URLs FeedParser extracts from
\* it, whether its text is the empty string, and the validators served.
Doc(ctype, links, empty, etag, lm) ==
  [ctype |-> ctype, links |-> links, empty |-> empty, etag |-> etag, lm |-> lm]

BodyIds ==
  {"root1", "root2", "root3", "root4", "root5", "page", "cssA", "cssB",
   "blank", "txt", "root6", "hang", "root8", "root9", "mp4", "jpg",
   "root10", "leaf", "hub", "xml", "rootR", "rss1", "rss2", "rss3", "rss4"}

BodyDef(b) ==
  CASE b = "root1" -> Doc("text/html", <<LinkP, Css1>>, FALSE, "r1", "d1")
    [] b = "root2" -> Doc("text/html", <<Css1>>, FALSE, NoVal, "d2")
    [] b = "root3" -> Doc("text/html", <<LinkP, Gone>>, FALSE, "r3", "d1")
    [] b = "root4" -> Doc("text/html", <<Css1, Css2, Hook>>, FALSE, "r4", "d1")
    [] b = "root5" -> Doc("text/html", <<Css2>>, FALSE, "r5", "d1")
    [] b = "page"  -> Doc("text/html", <<LinkRoot, Css1>>, FALSE, NoVal, "d1")
    [] b = "cssA"  -> Doc("text/css", <<>>, FALSE, "ca", NoVal)
    [] b = "cssB"  -> Doc("text/css", <<>>, FALSE, "cb", NoVal)
    [] b = "root6" -> Doc("text/html", <<CssUp>>, FALSE, "r6", "d1")
    [] b = "root8" -> Doc("text/html", <<LookAlike, Cdn>>, FALSE, "r8", "d1")
    [] b = "root9" -> Doc("text/html", <<Video>>, FALSE, "r9", "d1")
    [] b = "root10" -> Doc("text/html", <<PageFragA, PageFragB>>, FALSE, "r10", "d1")
    [] b = "leaf"  -> Doc("text/html", <<LinkRoot>>, FALSE, "lf", "d1")
    [] b = "hub"   -> Doc("text/html", <<PageQ>>, FALSE, "hb", "d1")
    [] b = "xml"   -> Doc("text/xml", <<>>, FALSE, "xm", "d1")
    [] b = "rootR" -> Doc("text/html", <<Rss>>, FALSE, "rr", "d1")
    [] b = "rss1"  -> Doc("application/rss+xml", <<PageP>>, FALSE, "f1", "d1")
    [] b = "rss2"  -> Doc("application/rss+xml", <<PageP>>, FALSE, "f2", "d2")
    [] b = "rss3"  -> Doc("application/rss+xml", <<PageP, PageQ>>, FALSE, "f3", "d2")
    [] b = "rss4"  -> Doc("application/rss+xml", <<PageP>>, FALSE, "f4", "d1")
    [] b = "mp4"   -> Doc("video/mp4", <<>>, FALSE, "vm", NoVal)
    [] b = "jpg"   -> Doc("image/jpeg", <<>>, FALSE, "vj", NoVal)
    [] b = "hang"  -> Doc("", <<>>, TRUE, NoVal, NoVal)   \* no response at all
    [] b = "blank" -> Doc("text/css", <<>>, TRUE, "bl", NoVal)
    [] b = "txt"   -> Doc("text/plain", <<>>, FALSE, "tx", "d1")

\* A site: the document served at each URL (every other URL answers 404)
\* and the URLs its sitemap lists.
SiteIds ==
  {"A", "B", "C", "D", "E", "F", "G", "H", "I", "J", "K", "L", "M", "N", "O",
   "P", "Q", "R", "S", "T", "U"}

Pages(s) ==
  CASE s = "A" -> (Root :> "root1" @@ PageP :> "page" @@ Css1 :> "cssA" @@ Robots :> "txt")
    [] s = "B" -> (Root :> "root2" @@ PageP :> "page" @@ Css1 :> "cssA" @@ Robots :> "txt")
    [] s = "C" -> (Root :> "root3" @@ PageP :> "page" @@ PageQ :> "page"
                   @@ Css1 :> "cssA" @@ Robots :> "txt")
    [] s = "D" -> (Root :> "root2" @@ Css1 :> "cssA" @@ Robots :> "txt")
    [] s = "E" -> (Root :> "root4" @@ Css1 :> "cssA" @@ Css2 :> "cssB" @@ Robots :> "txt")
    [] s = "F" -> (Root :> "root5" @@ Css2 :> "cssB" @@ Robots :> "txt")
    [] s = "G" -> (Root :> "root2" @@ Css1 :> "blank" @@ Robots :> "txt")
    [] s = "H" -> (Root :> "root6" @@ CssUp :> "cssA" @@ Robots :> "txt")
    [] s = "I" -> (Root :> "root2" @@ Css1 :> "hang" @@ Robots :> "txt")
    [] s = "J" -> (Root :> "root2" @@ PageP :> "page" @@ Css1 :> "cssA"
                     @@ Robots :> "txt")
    [] s = "K" -> (Root :> "root8" @@ LookAlike :> "cssB" @@ Cdn :> "cssA"
                     @@ Robots :> "txt")
    [] s = "L" -> (Root :> "root9" @@ Video :> "mp4" @@ VideoThumb :> "jpg"
                     @@ Robots :> "txt")
    [] s = "M" -> (Root :> "root10" @@ PageP :> "leaf" @@ Robots :> "txt")
    [] s = "N" -> (Root :> "root2" @@ Css1 :> "cssA" @@ Robots :> "txt")
    [] s = "O" -> (Root :> "leaf" @@ PageP :> "hub" @@ PageQ :> "leaf"
                     @@ Robots :> "txt")
    [] s = "P" -> (Root :> "leaf" @@ PageP :> "leaf" @@ SitemapGuide :> "leaf"
                     @@ Robots :> "txt")
    [] s = "Q" -> (Root :> "leaf" @@ PageP :> "leaf" @@ SitemapPosts1 :> "xml"
                     @@ Robots :> "txt")
    [] s = "R" -> (Root :> "rootR" @@ Rss :> "rss1" @@ PageP :> "leaf"
                     @@ Robots :> "txt")
    [] s = "S" -> (Root :> "rootR" @@ Rss :> "rss2" @@ PageP :> "leaf"
                     @@ Robots :> "txt")
    [] s = "T" -> (Root :> "rootR" @@ Rss :> "rss3" @@ PageP :> "leaf"
                     @@ PageQ :> "leaf" @@ Robots :> "txt")
    [] s = "U" -> (Root :> "rootR" @@ Rss :> "rss4" @@ PageP :> "leaf"
                     @@ Robots :> "txt")

\* A sitemap document as FeedParser.parseSitemap reads it: the top-level
\* element and the <loc> values below it
XmlDoc(kind, locs) == [kind |-> kind, locs |-> locs]

\* The documents served at the sitemap URLs of a site (a site without an
\* entry answers 404 for /sitemap.xml)
SitemapDocs(s) ==
  CASE s \in {"A", "B"} ->
         (SitemapXml :> XmlDoc("sitemapindex", <<SitemapPages>>)
            @@ SitemapPages :> XmlDoc("urlset", <<PageP>>))
    [] s = "C" ->
         (SitemapXml :> XmlDoc("sitemapindex", <<SitemapPages>>)
            @@ SitemapPages :> XmlDoc("urlset", <<PageP, PageQ>>))
    [] s = "D" -> (SitemapXml :> XmlDoc("urlset", <<Gone>>))
    [] s = "F" -> (SitemapXml :> XmlDoc("urlset", <<Css2>>))
    [] s = "J" -> (SitemapXml :> XmlDoc("urlset", <<NotAUrl, PageP>>))
    [] s = "O" -> (SitemapXml :> XmlDoc("urlset", <<PageP>>))
    [] s = "P" -> (SitemapXml :> XmlDoc("urlset", <<PageP, SitemapGuide>>))
    [] s = "Q" ->
         (SitemapXml :> XmlDoc("sitemapindex", <<SitemapPosts>>)
            @@ SitemapPosts :> XmlDoc("sitemapindex", <<SitemapPosts1>>)
            @@ SitemapPosts1 :> XmlDoc("urlset", <<PageP>>))
    [] OTHER -> << >>

\* FeedParser.parseSitemap: the <loc> values of a sitemap index or of a
\* urlset, nothing for any other document
parseSitemap(doc) ==
  IF doc.kind \in {"sitemapindex", "urlset"} THEN doc.locs ELSE <<>>

\* `await fetch(url)` and `response.text()` in fetchSitemapUrls: a sitemap
\* document, the text of a page, or a response that is not ok
FetchXml(s, u) ==
  IF u \in DOMAIN SitemapDocs(s) THEN [ok |-> TRUE, doc |-> SitemapDocs(s)[u]]
  ELSE IF IsParseable(u) /\ Request(u) \in DOMAIN Pages(s)
    THEN [ok |-> TRUE, doc |-> XmlDoc("html", <<>>)]
  ELSE [ok |-> FALSE, doc |-> XmlDoc("none", <<>>)]

\* The names that contain "sitemap-"
SitemapDashTokens ==
  {"sitemap-pages", "sitemap-posts", "sitemap-posts-1", "sitemap-guide"}

\* `item.url.includes('sitemap-')`
IncludesSitemapDash(u) ==
  IsParseable(u) /\ \E i \in 1..Len(u.path) : u.path[i] \in SitemapDashTokens

\* The loop of fetchSitemapUrls over the items of the main sitemap
SitemapItems[s \in SiteIds, items \in Seq(Urls)] ==
  IF items = <<>> THEN <<>>
  ELSE LET item == Head(items)
           sub == FetchXml(s, item)
       IN (IF IncludesSitemapDash(item)
             THEN (IF sub.ok THEN parseSitemap(sub.doc) ELSE <<>>)
             ELSE <<item>>) \o SitemapItems[s, Tail(items)]

\* ConcurrentCrawler.fetchSitemapUrls(`${SOURCE_DOMAIN}/sitemap.xml`)
fetchSitemapUrls(s) ==
  LET response == FetchXml(s, SitemapXml)
  IN IF ~response.ok THEN <<>>
     ELSE SitemapItems[s, parseSitemap(response.doc)]

\* generateStaticSite: sitemapUrls
Sitemap(s) == fetchSitemapUrls(s)

\* The URLs whose connection may fail: a request for one of them is answered
\* or ends in a transport error
Flaky(s) ==
  IF s = "N" THEN {Css1, Robots} ELSE IF s = "O" THEN {PageP} ELSE {}

\* Edits of the origin between two runs: a link is removed (A -> B), put
\* back (B -> A), a link to a page that does not exist is added (A -> C),
\* or a page is unpublished together with the only link to it (O -> B);
\* the feed is rebuilt as it was (R -> S), rebuilt with a new item (R -> T),
\* or served again under the site's other domain (R -> U).
OriginEdits ==
  { <<"A", "B">>, <<"B", "A">>, <<"A", "C">>, <<"O", "B">>,
    <<"R", "S">>, <<"R", "T">>, <<"R", "U">> }

\* The sites a first run can find; the others are edits of one of these
StartSites == SiteIds \ {"S", "T", "U"}

\* The text of a body as far as the RSS comparison reads it: the content
\* of <lastBuildDate>, the domain its absolute URLs are written with, and
\* the rest of the text
Content(b) ==
  CASE b = "rss1" -> [date |-> "Mon", domain |-> "https://blog.home.ndbroadbent.com",
                      text |-> "items1"]
    [] b = "rss2" -> [date |-> "Tue", domain |-> "https://blog.home.ndbroadbent.com",
                      text |-> "items1"]
    [] b = "rss3" -> [date |-> "Tue", domain |-> "https://blog.home.ndbroadbent.com",
                      text |-> "items2"]
    [] b = "rss4" -> [date |-> "Mon", domain |-> "https://madebynathan.com",
                      text |-> "items1"]
    [] OTHER -> [date |-> "none", domain |-> "none", text |-> b]

\* The origin's answer to a GET of u carrying the given validators.
Respond(s, u, inm, ims) ==
  IF Request(u) \notin DOMAIN Pages(s) THEN [status |-> 404, body |-> "none"]
  ELSE LET b == Pages(s)[Request(u)]
           d == BodyDef(b)
           hit == IF inm # NoVal THEN inm = d.etag
                  ELSE ims # NoVal /\ ims = d.lm
       IN IF hit THEN [status |-> 304, body |-> "none"]
          ELSE [status |-> 200, body |-> b]

\* The origin sends a response to a request for u (a site may accept the
\* connection and never answer)
Answers(s, u) ==
  ~(Request(u) \in DOMAIN Pages(s) /\ Pages(s)[Request(u)] = "hang")

\* The catch of SmartFetcher.fetch: a transport error resolves with status 0
TransportError == [status |-> 0, body |-> "none"]

\* What a call of SmartFetcher.fetch(u) can resolve with
Outcomes(s, u, inm, ims) ==
  {Respond(s, u, inm, ims)} \cup (IF Request(u) \in Flaky(s) THEN {TransportError} ELSE {})

\* ------------------------------------------------------------------------
\* Maps (JavaScript objects / Map keyed by URL or path)
\* ------------------------------------------------------------------------
EmptyMap == << >>

Put(m, k, v) == [x \in (DOMAIN m) \cup {k} |-> IF x = k THEN v ELSE m[x]]

Remove(m, K) == [x \in (DOMAIN m) \ K |-> m[x]]

\* Array.from(new Set(array)): first occurrences, in order
Dedupe[s \in Seq(Urls)] ==
  IF s = <<>> THEN <<>>
  ELSE LET r == Dedupe[DropLast(s, 1)]
           x == s[Len(s)]
       IN IF x \in Range(r) THEN r ELSE Append(r, x)

\* urls.map((u) => this.normalizeUrl(u))
NormalizeAll[s \in Seq(Urls)] == [i \in 1..Len(s) |-> normalizeUrl[s[i]]]

\* array.filter((x) => !S.has(x)), order kept
Without[s \in Seq(Urls), S \in SUBSET Urls] ==
  IF s = <<>> THEN <<>>
  ELSE (IF Head(s) \in S THEN <<>> ELSE <<Head(s)>>) \o Without[Tail(s), S]

\* ------------------------------------------------------------------------
\* CacheManager
\* ------------------------------------------------------------------------
\* CacheManager.getConditionalHeaders: If-None-Match and If-Modified-Since
getConditionalHeaders(m, u) ==
  IF u \notin DOMAIN m THEN [inm |-> NoVal, ims |-> NoVal]
  ELSE [inm |-> m[u].etag, ims |-> m[u].lm]

\* CacheManager.setEntry as SmartFetcher.fetch calls it after a download
setEntry(m, u, etag, lm, at) ==
  LET old == IF u \in DOMAIN m THEN m[u] ELSE [etag |-> NoVal, lm |-> NoVal, at |-> at]
  IN Put(m, u, [etag |-> IF etag # NoVal THEN etag ELSE old.etag,
                lm |-> IF lm # NoVal THEN lm ELSE old.lm,
                at |-> at])

\* CacheManager.clearEntry / removeEntry
clearEntry(m, u) == Remove(m, {u})

\* A cutoff test that also takes the entries fetched exactly at the cutoff
OldEntriesInclusive(m, maxAgeDays, today) ==
  {u \in DOMAIN m : m[u].at <= today - maxAgeDays}

\* The entries clearOldEntries(maxAgeDays) removes at day `today`:
\* `lastFetched < cutoffDate`
OldEntries(m, maxAgeDays, today) ==
  {u \in DOMAIN m : m[u].at < today - maxAgeDays}

\* CacheManager.clearOldEntries
clearOldEntries(m, maxAgeDays, today) == Remove(m, OldEntries(m, maxAgeDays, today))

\* The number clearOldEntries returns: one for every removeEntry call
clearOldEntriesCount(m, maxAgeDays, today) ==
  Cardinality(OldEntries(m, maxAgeDays, today))

\* ------------------------------------------------------------------------
\* GraphCache
\* ------------------------------------------------------------------------
Node(outLinks, resources) == [outLinks |-> outLinks, resources |-> resources]

\* GraphCache.setNode
setNode(g, u, outLinks, resources) ==
  Put(g, u, Node(Dedupe[outLinks], Dedupe[resources]))

\* GraphCache.getChildUrls
getChildUrls(g, u) ==
  IF u \notin DOMAIN g THEN <<>> ELSE g[u].outLinks \o g[u].resources

\* The while loop of GraphCache.buildDAG; visited and reachable grow together.
BuildDAGLoop[g \in Any, todo \in Seq(Urls), visited \in SUBSET Urls] ==
  IF todo = <<>> THEN visited
  ELSE LET u == Head(todo)
       IN IF u \in visited THEN BuildDAGLoop[g, Tail(todo), visited]
          ELSE BuildDAGLoop[
                 g,
                 Tail(todo) \o Without[getChildUrls(g, u), visited \cup {u}],
                 visited \cup {u}]

\* GraphCache.buildDAG
buildDAG(g, entryUrls) == BuildDAGLoop[g, entryUrls, {}]

\* Array.from(set): some enumeration of the set
SeqOfSet[S \in SUBSET Urls] ==
  IF S = {} THEN <<>>
  ELSE LET x == CHOOSE y \in S : TRUE IN <<x>> \o SeqOfSet[S \ {x}]

\* ------------------------------------------------------------------------
\* ConcurrentCrawler helpers
\* ------------------------------------------------------------------------
\* ConcurrentCrawler.isHtmlContent
isHtmlContent(ctype, u) ==
  \/ ctype = "text/html"
  \/ LET ext == extname[u.path] IN ext = <<>> \/ ext = <<".", "html">>

\* ConcurrentCrawler.isRSSFeed, of an output path below the static
\* directory: it includes '/rss/' or ends with '/rss'
isRSSFeed[p \in Paths] ==
  \E i \in 1..Len(p) :
    /\ p[i] = "rss"
    /\ i = 1 \/ p[i - 1] = "/"
    /\ i = Len(p) \/ p[i + 1] = "/"

\* A normalization that blanks <lastBuildDate> and nothing else
normalizeRSSContentDateOnly(c) ==
  IF c.date = "none" THEN c ELSE [c EXCEPT !.date = ""]

\* ConcurrentCrawler.normalizeRSSContent: <lastBuildDate> is blanked and
\* the two domains of the site are replaced by the word DOMAIN
normalizeRSSContent(c) ==
  LET blanked == IF c.date = "none" THEN c ELSE [c EXCEPT !.date = ""]
  IN IF blanked.domain \in {"https://blog.home.ndbroadbent.com",
                             "https://madebynathan.com"}
       THEN [blanked EXCEPT !.domain = "DOMAIN"] ELSE blanked

\* ConcurrentCrawler.isCssContent
isCssContent(ctype, u) ==
  \/ ctype = "text/css"
  \/ (u.v = NoQuery /\ "frag" \notin DOMAIN u /\ EndsWith(u.path, <<".", "css">>))

VideoExtensions == {"mp4", "mov", "webm", "avi", "mkv"}

\* ConcurrentCrawler.isVideoUrl
isVideoUrl[u \in Urls] == \E e \in VideoExtensions : EndsWith(u.path, <<".", e>>)

\* A derivation that returns the video URL itself
getVideoThumbnailUrlSame(u) == u

\* ConcurrentCrawler.getVideoThumbnailUrl: clip.mp4 -> clip_thumb.jpg
getVideoThumbnailUrl(u) ==
  LET lastDot == MaxOf(Positions(u.path, "."))
      basePath == SubSeq(u.path, 1, lastDot - 1)
  IN [u EXCEPT !.path = DropLast(basePath, 1)
                       \o <<basePath[Len(basePath)] \o "_thumb", ".", "jpg">>,
                !.v = NoQuery]

\* The outLinks of an HTML document: the links isHtmlContent accepts
HtmlLinks[links \in Seq(Urls)] ==
  IF links = <<>> THEN <<>>
  ELSE (IF isHtmlContent("", Head(links)) THEN <<Head(links)>> ELSE <<>>)
         \o HtmlLinks[Tail(links)]

\* The resources of an HTML document, each video followed by its thumbnail
SplitResources[links \in Seq(Urls)] ==
  IF links = <<>> THEN <<>>
  ELSE LET l == Head(links)
       IN (IF isHtmlContent("", l) THEN <<>>
           ELSE IF isVideoUrl[l] THEN <<l, getVideoThumbnailUrl(l)>>
           ELSE <<l>>) \o SplitResources[Tail(links)]

\* absoluteUrl.startsWith(base) for a base "https://" + host
hrefStartsWith(u, host) == StartsWith(HostOf(u), host)

\* FeedParser.extractUrlsFromHtml: the references of the document, resolved
\* against baseUrl, that start with the baseUrl string
extractUrlsFromHtml(refs, baseHost) ==
  LET Keep(r) == hrefStartsWith(r, baseHost) IN SelectSeq(refs, Keep)

\* FeedParser.extractUrlsFromCss: the url() references that start with the
\* origin of the style sheet's own URL
extractUrlsFromCss(refs, baseUrl) ==
  LET Keep(r) == hrefStartsWith(r, HostOf(baseUrl)) IN SelectSeq(refs, Keep)

\* SmartFetcher.isBinaryContent: the body is a Buffer, not a string
isBinaryContent(ctype) ==
  ctype \in {"image/png", "image/jpeg", "video/mp4", "font/woff2"}

\* The allowlist test of ConcurrentCrawler.addError
IsAllowlisted(u) == \E pat \in Allowlist404 : Includes(u.path, pat)

\* ConcurrentCrawler.addError; errors is kept as a set of (url, status)
addError(errs, u, status) ==
  IF IsAllowlisted(u) THEN errs ELSE errs \cup {[url |-> u, status |-> status]}

\* Lines 279-323 of crawlUrl: the links of a downloaded document, split
\* into outLinks and resources, normalized and deduplicated.
ParseLinks(d, u) ==
  IF isHtmlContent(d.ctype, u) /\ ~isBinaryContent(d.ctype)
    THEN LET newLinks == extractUrlsFromHtml(d.links, SourceHost)
         IN Node(Dedupe[NormalizeAll[HtmlLinks[newLinks]]],
                 Dedupe[NormalizeAll[SplitResources[newLinks]]])
  ELSE IF isCssContent(d.ctype, u) /\ ~isBinaryContent(d.ctype)
    THEN Node(<<>>, Dedupe[NormalizeAll[extractUrlsFromCss(d.links, u)]])
  ELSE Node(<<>>, <<>>)

\* queue.add of every link that is neither crawled nor in progress
Enqueue[q \in Seq(Urls), links \in Seq(Urls), busy \in SUBSET Urls] ==
  IF links = <<>> THEN q
  ELSE LET l == Head(links)
           q1 == IF l \in busy \/ l \in Range(q) THEN q ELSE Append(q, l)
       IN Enqueue[q1, Tail(links), busy]

\* ------------------------------------------------------------------------
\* State
\* ------------------------------------------------------------------------
VARIABLES
  site,           \* the origin as it stands: a site id
  files,          \* output tree: relative path -> body id of the content
  dirs,           \* output tree: the directories that exist, <<>> the root
  diskManifest,   \* .gssg-cache/manifest.json: url -> validator entry
  diskGraph,      \* .gssg-cache/graph.json: url -> node
  now,            \* the day
  env,            \* events outside the runs, oldest first
  pc,             \* position of generateStaticSite
  run,            \* number of runs started
  N,              \* options.concurrency of this run
  manifest,       \* CacheManager.manifest.urls
  cacheModified,  \* CacheManager.modified
  graph,          \* GraphCache.manifest.nodes
  graphModified,  \* GraphCache.modified
  crawled,        \* ConcurrentCrawler.crawled
  inProgress,     \* ConcurrentCrawler.inProgress
  queue,          \* ConcurrentCrawler.queue, in insertion order
  errors,         \* ConcurrentCrawler.errors
  knownValidUrls, \* ConcurrentCrawler.knownValidUrls
  newGraph,       \* ConcurrentCrawler.newGraph
  pending,        \* calls of the batch that p-limit has not started yet
  unsettled,      \* promises of the batch Promise.all still waits for
  flight,         \* url -> the request of its handler that awaits an answer
  hist,           \* what this run did: fetches, downloads, writes, deletes
  pre,            \* disk and origin as the run found them
  first           \* outcome of the run a replay repeats

envVars == <<site, files, dirs, diskManifest, diskGraph, now, env>>

cacheVars == <<manifest, cacheModified, graph, graphModified>>

crawlVars == <<crawled, inProgress, queue, errors, knownValidUrls, newGraph,
               pending, unsettled, flight>>

vars == <<site, files, dirs, diskManifest, diskGraph, now, env, pc, run, N,
          manifest, cacheModified, graph, graphModified, crawled, inProgress,
          queue, errors, knownValidUrls, newGraph, pending, unsettled, flight,
          hist, pre, first>>

NoHist ==
  [fetches |-> EmptyMap, downloaded |-> {}, written |-> {}, deleted |-> {},
   settle |-> <<>>, retried |-> {}, wrote |-> <<>>, rootErrors |-> {},
   threw |-> {}, resolved |-> {}, everQueued |-> {}, requeued |-> {},
   writers |-> {}, reachable |-> {}, attempted |-> {}, pruned |-> {}]

\* queue.add calls that put a URL into the queue: the URLs q2 holds and q1
\* did not; a URL that had been in the queue before in this run is noted
LogQueued(h, q1, q2) ==
  LET newly == Range(q2) \ Range(q1)
  IN [h EXCEPT !.requeued = @ \cup (newly \cap h.everQueued),
               !.everQueued = @ \cup newly]

\* A call of SmartFetcher.fetch(u) resolved with the given status
LogResolved(h, u, status, stage) ==
  [h EXCEPT !.resolved = @ \cup {[url |-> u, status |-> status, stage |-> stage]}]

NoPre == [files |-> EmptyMap, dirs |-> {}, manifest |-> EmptyMap, graph |-> EmptyMap,
          site |-> "", expired |-> {}, removed |-> 0, after |-> "idle",
          clean |-> TRUE]

\* A request of this run ended in a transport error
TransportFailed(h) == \E r \in h.resolved : r.status = 0

Init ==
  /\ site \in StartSites
  /\ files = EmptyMap
  /\ dirs = {}
  /\ diskManifest = EmptyMap
  /\ diskGraph = EmptyMap
  /\ now = 0
  /\ env = <<>>
  /\ pc = "idle"
  /\ run = 0
  /\ N = 1
  /\ manifest = EmptyMap
  /\ cacheModified = FALSE
  /\ graph = EmptyMap
  /\ graphModified = FALSE
  /\ crawled = {}
  /\ inProgress = {}
  /\ queue = <<>>
  /\ errors = {}
  /\ knownValidUrls = {}
  /\ newGraph = EmptyMap
  /\ pending = <<>>
  /\ unsettled = 0
  /\ flight = EmptyMap
  /\ hist = NoHist
  /\ pre = NoPre
  /\ first = None

\* ------------------------------------------------------------------------
\* generateStaticSite, up to the first loop test of crawl(rootUrl)
\* ------------------------------------------------------------------------
\* The entry seed handed to registerKnownValidUrls
EntrySeed(s) == <<RootUrl>> \o ExplicitUrls \o Sitemap(s)

\* ConcurrentCrawler.registerKnownValidUrls
registerKnownValidUrls(urls) == {normalizeUrl[urls[i]] : i \in 1..Len(urls)}

RunStart ==
  /\ pc \in {"idle", "done", "failed"}
  /\ run < MaxRuns
  /\ first = None \/ pc = "idle"
  /\ \E n \in 1..MaxN : N' = n
  /\ run' = run + 1
  /\ env' = env
  /\ manifest' = clearOldEntries(diskManifest, MaxAgeDays, now)
  /\ cacheModified' = (OldEntries(diskManifest, MaxAgeDays, now) # {})
  /\ graph' = diskGraph
  /\ graphModified' = FALSE
  /\ knownValidUrls' = registerKnownValidUrls(EntrySeed(site))
  /\ crawled' = {}
  /\ inProgress' = {}
  /\ queue' = <<normalizeUrl[RootUrl]>>
  /\ errors' = {}
  /\ newGraph' = EmptyMap
  /\ pending' = <<>>
  /\ unsettled' = 0
  /\ flight' = EmptyMap
  /\ hist' = LogQueued(NoHist, <<>>, queue')
  /\ dirs' = MkdirP(dirs, <<"content">>)
  /\ pre' = [files |-> files, dirs |-> dirs, manifest |-> diskManifest,
             graph |-> diskGraph,
             site |-> site, expired |-> OldEntries(diskManifest, MaxAgeDays, now),
             removed |-> clearOldEntriesCount(diskManifest, MaxAgeDays, now),
             after |-> pc, clean |-> ~TransportFailed(hist)]
  /\ pc' = "crawl"
  /\ UNCHANGED <<site, files, diskManifest, diskGraph, now, first>>

\* ------------------------------------------------------------------------
\* The main loops of crawl and crawlAdditionalUrls
\* ------------------------------------------------------------------------
\* One test of `while (queue.size > 0 || inProgress.size > 0)`; `exit` is
\* where the code goes when the loop ends, `wait` where it awaits the batch.
LoopTest(wait, exit) ==
  IF queue # <<>> \/ inProgress # {}
    THEN IF queue = <<>>
           THEN \* setTimeout(resolve, 100); continue
                UNCHANGED <<pc, queue, pending, unsettled>>
           ELSE /\ pending' = queue
                /\ unsettled' = Len(queue)
                /\ queue' = <<>>
                /\ pc' = wait
    ELSE /\ pc' = exit
         /\ UNCHANGED <<queue, pending, unsettled>>

\* A crawl that reports its errors and settles all the same
CrawlExitSettles(errs) == IF errs # {} THEN "gc" ELSE "addStart"

\* After the loop of crawl: `throw new Error(...)` when errors were recorded
\* (generateStaticSite then exits with code 1), else crawl returns
CrawlExit(errs) == IF errs # {} THEN "failed" ELSE "addStart"

\* crawl: the loop test and, after the loop, the final error report
CrawlLoop ==
  /\ pc = "crawl"
  /\ LoopTest("crawlWait", CrawlExit(errors))
  /\ hist' = IF queue # <<>> \/ inProgress # {} THEN hist
             ELSE [hist EXCEPT !.rootErrors = errors]
  /\ UNCHANGED <<envVars, cacheVars, run, N, crawled, inProgress, errors,
                 knownValidUrls, newGraph, flight, pre, first>>

\* An additional crawl that leaves out the explicit URLs
AdditionalUrlsSitemapOnly(s) == Sitemap(s)

\* generateStaticSite: the argument of crawlAdditionalUrls
AdditionalUrls(s) == ExplicitUrls \o Sitemap(s)

\* A crawlAdditionalUrls that returns before its loop whatever it queued
AdditionalEntryReturns(uncrawled) == "gc"

\* crawlAdditionalUrls returns at once when nothing is left to crawl, and
\* enters its loop otherwise; finalizeAndCleanup follows its return
AdditionalEntry(uncrawled) == IF uncrawled = <<>> THEN "gc" ELSE "add"

\* crawlAdditionalUrls, up to its loop
AdditionalStart ==
  /\ pc = "addStart"
  /\ LET normalizedUrls == NormalizeAll[AdditionalUrls(site)]
         uncrawled == Without[normalizedUrls, crawled \cup inProgress]
     IN IF uncrawled = <<>>
          THEN pc' = AdditionalEntry(uncrawled) /\ UNCHANGED queue
          ELSE pc' = AdditionalEntry(uncrawled) /\ queue' = Enqueue[queue, uncrawled, {}]
  /\ hist' = LogQueued(hist, queue, queue')
  /\ UNCHANGED <<envVars, cacheVars, run, N, crawled, inProgress, errors,
                 knownValidUrls, newGraph, pending, unsettled, flight,
                 pre, first>>

\* crawlAdditionalUrls: the loop test; the function returns after the loop
AdditionalLoop ==
  /\ pc = "add"
  /\ LoopTest("addWait", "gc")
  /\ UNCHANGED <<envVars, cacheVars, run, N, crawled, inProgress, errors,
                 knownValidUrls, newGraph, flight, hist, pre, first>>

\* `await Promise.all(batch...)` returns
BatchSettled ==
  /\ pc \in {"crawlWait", "addWait"}
  /\ unsettled = 0
  /\ pc' = IF pc = "crawlWait" THEN "crawl" ELSE "add"
  /\ UNCHANGED <<envVars, cacheVars, run, N, crawlVars, hist, pre, first>>

\* ------------------------------------------------------------------------
\* crawlUrl
\* ------------------------------------------------------------------------
\* p-limit: a queued call starts while fewer than `concurrency` calls run
CanStart(active, concurrency) == active < concurrency

\* A membership test that forgets the crawled set
IsBusyInProgressOnly(u, done, busy) == u \in busy

\* The membership test that opens crawlUrl
IsBusy(u, done, busy) == u \in done \/ u \in busy

\* One more call of SmartFetcher.fetch(u), with or without validators
LogFetch(h, u, hdr) ==
  LET old == IF u \in DOMAIN h.fetches THEN h.fetches[u]
             ELSE [cond |-> 0, plain |-> 0]
      new == IF hdr.inm # NoVal \/ hdr.ims # NoVal
               THEN [old EXCEPT !.cond = @ + 1]
               ELSE [old EXCEPT !.plain = @ + 1]
  IN [h EXCEPT !.fetches = Put(@, u, new)]

\* The URLs whose crawlUrl call threw at urlToFilePath, before its try
\* block: they stay in inProgress and their promise is rejected
Thrown == inProgress \ DOMAIN flight

\* p-limit starts the next call of the batch: crawlUrl up to `await fetch`,
\* or up to the TypeError of `new URL` in urlToFilePath
Dispatch ==
  /\ pc \in {"crawlWait", "addWait"}
  /\ pending # <<>>
  /\ CanStart(Cardinality(DOMAIN flight), N)
  /\ pending' = Tail(pending)
  /\ LET u == normalizeUrl[Head(pending)]
         hdr == getConditionalHeaders(manifest, u)
     IN IF IsBusy(u, crawled, inProgress)
          THEN /\ unsettled' = unsettled - 1
               /\ UNCHANGED <<inProgress, flight, hist>>
        ELSE IF ~IsParseable(u)
          THEN /\ inProgress' = inProgress \cup {u}
               /\ hist' = [hist EXCEPT !.threw = @ \cup {u}]
               /\ UNCHANGED <<flight, unsettled>>
          ELSE /\ inProgress' = inProgress \cup {u}
               /\ flight' = Put(flight, u, [stage |-> "first", inm |-> hdr.inm,
                                            ims |-> hdr.ims])
               /\ hist' = LogFetch(hist, u, hdr)
               /\ UNCHANGED unsettled
  /\ UNCHANGED <<envVars, cacheVars, pc, run, N, crawled, queue, errors,
                 knownValidUrls, newGraph, pre, first>>

\* The rejection of a crawlUrl call passes through Promise.all and the
\* loop to the catch of generateStaticSite: process.exit(1). p-limit has
\* started the next waiting call of the batch by then.
ProcessExit ==
  /\ pc \in {"crawlWait", "addWait"}
  /\ Thrown # {}
  /\ ~(pending # <<>> /\ CanStart(Cardinality(DOMAIN flight), N))
  /\ pc' = "failed"
  /\ UNCHANGED <<envVars, cacheVars, run, N, crawled, inProgress, queue, errors,
                 knownValidUrls, newGraph, pending, unsettled, flight, hist,
                 pre, first>>

\* A handler without the finally block
inProgressKept(busy, u) == busy

\* Lines 365-367: `finally { this.inProgress.delete(url) }`
inProgressDelete(busy, u) == busy \ {u}

\* The handler of u ends: crawled.add(url), inProgress.delete(url)
Finish(u) ==
  /\ crawled' = crawled \cup {u}
  /\ inProgress' = inProgressDelete(inProgress, u)
  /\ flight' = Remove(flight, {u})
  /\ unsettled' = unsettled - 1

\* Lines 231-247: the cached links of u go to the new graph and the queue
UseCachedLinks(u) ==
  IF u \in DOMAIN graph
    THEN /\ newGraph' = Put(newGraph, u, Node(graph[u].outLinks, graph[u].resources))
         /\ queue' = Enqueue[queue, getChildUrls(graph, u), crawled \cup inProgress]
    ELSE UNCHANGED <<newGraph, queue>>

\* SmartFetcher.fetch after the answer: a download updates the validators
AfterFetch(m, u, r) ==
  IF r.status = 200
    THEN setEntry(m, u, BodyDef(r.body).etag, BodyDef(r.body).lm, now)
    ELSE m

\* `result.content` is truthy: a download whose text is not empty
HasContent(r) == r.status = 200 /\ ~BodyDef(r.body).empty

\* Lines 330-337: the links the old node of u has and the new node has not
RemovedLinks(g, u, node) ==
  IF u \in DOMAIN g
    THEN Range(getChildUrls(g, u)) \ Range(node.outLinks \o node.resources)
    ELSE {}

\* A report that unlinks the files of the removed links
ReportChangesUnlinks(fs, removed) ==
  Remove(fs, {urlToFilePath[l] : l \in {x \in removed : IsParseable(x)}})

\* Lines 339-344: added and removed links are counted on the console, the
\* output tree stays as it is
ReportChanges(fs, removed) == fs

\* Lines 255-268: shouldSkipWrite, for an RSS feed whose text equals the
\* text on disk once both are normalized
shouldSkipWrite(fs, outputPath, b) ==
  /\ isRSSFeed[outputPath]
  /\ ~isBinaryContent(BodyDef(b).ctype)
  /\ outputPath \in DOMAIN fs
  /\ normalizeRSSContent(Content(b)) = normalizeRSSContent(Content(fs[outputPath]))

\* The answer to the first request of u arrives: the rest of fetch and of
\* crawlUrl, up to the retry's `await fetch` when the file is missing.
ResolveFirst(u) ==
  /\ pc \in {"crawlWait", "addWait"}
  /\ u \in DOMAIN flight
  /\ flight[u].stage = "first"
  /\ Answers(site, u)
  /\ Thrown = {}
  /\ \E r \in Outcomes(site, u, flight[u].inm, flight[u].ims) :
     LET m1 == AfterFetch(manifest, u, r)
         outputPath == urlToFilePath[u]
         h0 == LogResolved(hist, u, r.status, "first")
         h1 == IF r.status = 200
                 THEN [h0 EXCEPT !.downloaded = @ \cup {u}] ELSE h0
     IN IF r.status \notin {200, 304}
          THEN /\ errors' = addError(errors, u, r.status)
               /\ Finish(u)
               /\ hist' = h1
               /\ UNCHANGED <<files, dirs, manifest, cacheModified, queue, newGraph>>
        ELSE IF r.status = 304 /\ outputPath \notin DOMAIN files
          THEN LET m2 == clearEntry(m1, u)
                   hdr == getConditionalHeaders(m2, u)
               IN /\ manifest' = m2
                  /\ cacheModified' = TRUE
                  /\ flight' = Put(flight, u, [stage |-> "retry", inm |-> hdr.inm,
                                               ims |-> hdr.ims])
                  /\ hist' = [LogFetch(h1, u, hdr) EXCEPT !.retried = @ \cup {u}]
                  /\ UNCHANGED <<files, dirs, errors, crawled, inProgress, unsettled,
                                 queue, newGraph>>
        ELSE IF r.status = 304
          THEN /\ UseCachedLinks(u)
               /\ Finish(u)
               /\ hist' = LogQueued(h1, queue, queue')
               /\ UNCHANGED <<files, dirs, manifest, cacheModified, errors>>
        ELSE IF HasContent(r)
          THEN LET node == ParseLinks(BodyDef(r.body), u)
                   skip == shouldSkipWrite(files, outputPath, r.body)
                   saved == IF skip THEN files ELSE Put(files, outputPath, r.body)
               IN /\ files' = ReportChanges(saved, RemovedLinks(graph, u, node))
                  /\ dirs' = MkdirP(dirs, dirname[outputPath])
                  /\ newGraph' = Put(newGraph, u, node)
                  /\ queue' = Enqueue[queue, node.outLinks \o node.resources,
                                      crawled \cup inProgress]
                  /\ manifest' = m1
                  /\ cacheModified' = TRUE
                  /\ Finish(u)
                  /\ hist' = LogQueued([h1 EXCEPT
                                          !.written = IF skip THEN @
                                                      ELSE @ \cup {outputPath},
                                          !.writers = @ \cup {u}],
                                       queue, queue')
                  /\ UNCHANGED errors
        ELSE /\ manifest' = m1
             /\ cacheModified' = TRUE
             /\ Finish(u)
             /\ hist' = h1
             /\ UNCHANGED <<files, dirs, errors, queue, newGraph>>
  /\ UNCHANGED <<site, diskManifest, diskGraph, now, env, pc, run, N, graph,
                 graphModified, knownValidUrls, pending, pre, first>>

\* The answer to the unconditional retry of u arrives (lines 217-247)
ResolveRetry(u) ==
  /\ pc \in {"crawlWait", "addWait"}
  /\ u \in DOMAIN flight
  /\ flight[u].stage = "retry"
  /\ Answers(site, u)
  /\ Thrown = {}
  /\ \E r \in Outcomes(site, u, flight[u].inm, flight[u].ims) :
     LET outputPath == urlToFilePath[u]
         h0 == LogResolved(hist, u, r.status, "retry")
         h1 == IF r.status = 200
                 THEN [h0 EXCEPT !.downloaded = @ \cup {u}] ELSE h0
     IN /\ manifest' = AfterFetch(manifest, u, r)
        /\ cacheModified' = TRUE
        /\ UseCachedLinks(u)
        /\ Finish(u)
        /\ IF HasContent(r)
             THEN /\ files' = Put(files, outputPath, r.body)
                  /\ dirs' = MkdirP(dirs, dirname[outputPath])
                  /\ hist' = LogQueued([h1 EXCEPT !.written = @ \cup {outputPath},
                                                  !.writers = @ \cup {u}],
                                       queue, queue')
             ELSE /\ UNCHANGED <<files, dirs>>
                  /\ hist' = LogQueued(h1, queue, queue')
  /\ UNCHANGED <<site, diskManifest, diskGraph, now, env, pc, run, N, graph,
                 graphModified, errors, knownValidUrls, pending, pre, first>>

\* ------------------------------------------------------------------------
\* finalizeAndCleanup and the saves
\* ------------------------------------------------------------------------
\* The setNode loop that opens finalizeAndCleanup
SetNodes[g \in Any, ng \in Any, todo \in SUBSET Urls] ==
  IF todo = {} THEN g
  ELSE LET u == CHOOSE x \in todo : TRUE
       IN SetNodes[setNode(g, u, ng[u].outLinks, ng[u].resources), ng, todo \ {u}]

\* The URLs of the files found in the static directory
FileUrls[fs \in Any] == {filePathToUrl[f] : f \in {x \in DOMAIN fs : UnderRoot(x)}} \ {None}

\* The path finalizeAndCleanup unlinks for a file URL to delete
UnlinkTarget(fileUrl) == urlToFilePath[fileUrl]

\* filesToDelete: the unlink targets of the file URLs outside the DAG
FilesToDelete[fs \in Any, reachableUrls \in SUBSET Urls] ==
  {UnlinkTarget(fu) : fu \in FileUrls[fs] \ reachableUrls}

\* Array.from(set) for a set of paths
PathsOfSet[S \in SUBSET Paths] ==
  IF S = {} THEN <<>>
  ELSE LET x == CHOOSE y \in S : TRUE IN <<x>> \o PathsOfSet[S \ {x}]

\* fs.readdirSync(dir): the files and the directories directly in dir
Entries(fs, ds, dir) ==
  {f \in DOMAIN fs : dirname[f] = dir}
    \cup {d \in ds : d # <<>> /\ dirname[d] = dir}

\* A test that takes every directory for empty
IsEmptyDirAlways(entries) == TRUE

\* `entries.length === 0`
IsEmptyDir(entries) == entries = {}

\* ConcurrentCrawler.removeEmptyParentDirs, from directory dir upward; the
\* loop ends at the static directory, at a directory outside it, at a
\* directory readdirSync cannot read, and at a directory that has entries
removeEmptyParentDirs[fs \in Any, ds \in SUBSET Paths, dir \in Paths] ==
  IF dir = <<>> \/ ~UnderRoot(dir) THEN ds
  ELSE IF dir \notin ds THEN ds
  ELSE IF IsEmptyDir(Entries(fs, ds, dir))
    THEN removeEmptyParentDirs[fs, ds \ {dir}, dirname[dir]]
  ELSE ds

\* The deletion loop of finalizeAndCleanup: unlinkSync, then the walk up
\* the parents; an unlink that throws is caught and the loop goes on
DeleteAll[fs \in Any, ds \in SUBSET Paths, todo \in Seq(Paths)] ==
  IF todo = <<>> THEN [files |-> fs, dirs |-> ds]
  ELSE LET filePath == Head(todo)
       IN IF filePath \notin DOMAIN fs THEN DeleteAll[fs, ds, Tail(todo)]
          ELSE LET fs1 == Remove(fs, {filePath})
               IN DeleteAll[fs1, removeEmptyParentDirs[fs1, ds, dirname[filePath]],
                            Tail(todo)]

\* A walk that drops the nodes it did not reach
AfterBuildDAGPruned(g, reachable) == Remove(g, DOMAIN g \ reachable)

\* GraphCache.manifest.nodes after buildDAG: the walk reads nodes and
\* changes none
AfterBuildDAG(g, reachable) == g

\* The entry points buildDAG starts from
EntryPoints(known) == SeqOfSet[known]

\* A deletion loop that lets the error of a failed unlink through
AfterDeletionsThrows(failed) == IF failed = {} THEN "saveGraph" ELSE "failed"

\* Lines 538-546: the error of a failed unlink is caught and logged, and
\* finalizeAndCleanup goes on to graphCache.save()
AfterDeletions(failed) == "saveGraph"

\* finalizeAndCleanup up to the deletions (an unlink of a path that is not
\* a file throws and is caught)
FinalizeGC ==
  /\ pc = "gc"
  /\ LET g1 == SetNodes[graph, newGraph, DOMAIN newGraph]
         reachableUrls == buildDAG(g1, EntryPoints(knownValidUrls))
         filesToDelete == FilesToDelete[files, reachableUrls]
         swept == DeleteAll[files, dirs, PathsOfSet[filesToDelete]]
     IN /\ graph' = AfterBuildDAG(g1, reachableUrls)
        /\ graphModified' = (graphModified \/ newGraph # EmptyMap)
        /\ files' = swept.files
        /\ dirs' = swept.dirs
        /\ hist' = [hist EXCEPT !.deleted = DOMAIN files \ DOMAIN swept.files,
                                !.settle = Append(@, "gc"),
                                !.reachable = reachableUrls,
                                !.attempted = filesToDelete,
                                !.pruned = dirs \ swept.dirs]
        /\ pc' = AfterDeletions(filesToDelete \ DOMAIN files)
  /\ UNCHANGED <<site, diskManifest, diskGraph, now, env, run, N, manifest,
                 cacheModified, crawlVars, pre, first>>

\* A save that never writes
NeedsSaveNever(modified) == FALSE

\* The test that opens GraphCache.save and CacheManager.save
NeedsSave(modified) == modified

\* graphCache.save() at the end of finalizeAndCleanup
SaveGraph ==
  /\ pc = "saveGraph"
  /\ IF NeedsSave(graphModified)
       THEN diskGraph' = graph /\ graphModified' = FALSE
       ELSE UNCHANGED <<diskGraph, graphModified>>
  /\ hist' = [hist EXCEPT !.settle = Append(@, "graph"),
                          !.wrote = IF NeedsSave(graphModified)
                                      THEN Append(@, "graph") ELSE @]
  /\ pc' = "saveCache"
  /\ UNCHANGED <<site, files, dirs, diskManifest, now, env, run, N, manifest,
                 cacheModified, graph, crawlVars, pre, first>>

\* cacheManager.save() in generateStaticSite; the run ends with exit code 0
SaveCache ==
  /\ pc = "saveCache"
  /\ IF NeedsSave(cacheModified)
       THEN diskManifest' = manifest /\ cacheModified' = FALSE
       ELSE UNCHANGED <<diskManifest, cacheModified>>
  /\ hist' = [hist EXCEPT !.settle = Append(@, "cache"),
                          !.wrote = IF NeedsSave(cacheModified)
                                      THEN Append(@, "cache") ELSE @]
  /\ pc' = "done"
  /\ UNCHANGED <<site, files, dirs, diskGraph, now, env, run, N, manifest, graph,
                 graphModified, crawlVars, pre, first>>

\* ------------------------------------------------------------------------
\* Between two runs: the operator, the origin and the clock
\* ------------------------------------------------------------------------
\* Files an operator or a deploy script puts into the output tree
DroppedFiles ==
  { <<"ghost", "/", "index", ".", "html">>,   \* static/ghost/index.html
    <<"LICENSE">>,                              \* static/LICENSE
    <<"CNAME">>,                                \* static/CNAME
    <<"content", "/", "old", ".", "png">> }     \* static/content/old.png

EnvStep(kind) ==
  /\ pc \in {"idle", "done", "failed"}
  /\ run < MaxRuns
  /\ first = None
  /\ Len(env) < MaxEnvSteps
  /\ env' = Append(env, kind)
  /\ pc' = "idle"

\* The origin is edited
OriginEdit ==
  /\ EnvStep("origin")
  /\ \E e \in OriginEdits : e[1] = site /\ site' = e[2]
  /\ UNCHANGED <<files, dirs, diskManifest, diskGraph, now, run, N, cacheVars,
                 crawlVars, hist, pre, first>>

\* The operator deletes a file of the output tree
OperatorDelete ==
  /\ EnvStep("delete")
  /\ \E f \in DOMAIN files : files' = Remove(files, {f})
  /\ UNCHANGED <<site, dirs, diskManifest, diskGraph, now, run, N, cacheVars,
                 crawlVars, hist, pre, first>>

\* The operator drops a file into the output tree
OperatorDrop ==
  /\ EnvStep("drop")
  /\ \E f \in DroppedFiles \ DOMAIN files :
       /\ files' = Put(files, f, "dropped")
       /\ dirs' = MkdirP(dirs, dirname[f])
  /\ UNCHANGED <<site, diskManifest, diskGraph, now, run, N, cacheVars,
                 crawlVars, hist, pre, first>>

\* The operator deletes manifest.json, graph.json or both; a missing file
\* is loaded as an empty manifest (loadManifest of either cache)
OperatorClearCache ==
  /\ run > 0
  /\ \E kind \in {"rmManifest", "rmGraph", "rmBoth"} :
       /\ EnvStep(kind)
       /\ diskManifest' = IF kind = "rmGraph" THEN diskManifest ELSE EmptyMap
       /\ diskGraph' = IF kind = "rmManifest" THEN diskGraph ELSE EmptyMap
  /\ UNCHANGED <<site, files, dirs, now, run, N, cacheVars, crawlVars, hist, pre,
                 first>>

\* The retention window passes, to the day or one day more
TimePasses ==
  /\ EnvStep("time")
  /\ run > 0
  /\ \E days \in {MaxAgeDays, MaxAgeDays + 1} : now' = now + days
  /\ UNCHANGED <<site, files, dirs, diskManifest, diskGraph, run, N, cacheVars,
                 crawlVars, hist, pre, first>>

\* ------------------------------------------------------------------------
\* Specification
\* ------------------------------------------------------------------------
Next ==
  \/ RunStart
  \/ CrawlLoop
  \/ AdditionalStart
  \/ AdditionalLoop
  \/ Dispatch
  \/ \E u \in DOMAIN flight : ResolveFirst(u)
  \/ \E u \in DOMAIN flight : ResolveRetry(u)
  \/ BatchSettled
  \/ ProcessExit
  \/ FinalizeGC
  \/ SaveGraph
  \/ SaveCache
  \/ OriginEdit
  \/ OperatorDelete
  \/ OperatorDrop
  \/ OperatorClearCache
  \/ TimePasses

Spec == Init /\ [][Next]_vars

\* The steps of a run: Node's event loop runs every callback that is ready,
\* and an answer that arrived is delivered.
RunStep ==
  \/ CrawlLoop
  \/ AdditionalStart
  \/ AdditionalLoop
  \/ Dispatch
  \/ \E u \in DOMAIN flight : ResolveFirst(u)
  \/ \E u \in DOMAIN flight : ResolveRetry(u)
  \/ BatchSettled
  \/ ProcessExit
  \/ FinalizeGC
  \/ SaveGraph
  \/ SaveCache

\* Runs one after another on an origin that answers every request (A, G,
\* J) or leaves one request unanswered (I)
LiveSites == {"A", "G", "I", "J"}

InitLive == Init /\ site \in LiveSites

NextLive == RunStart \/ RunStep

SpecLive == InitLive /\ [][NextLive]_vars /\ WF_vars(RunStep)

\* ------------------------------------------------------------------------
\* The same run once more: the output tree and both cache files are put
\* back as the run found them, the origin is as it was, and the run is
\* started again (its handlers may interleave differently).
\* ------------------------------------------------------------------------
Replay ==
  /\ pc \in {"done", "failed"}
  /\ first = None
  /\ first' = [pc |-> pc, files |-> files, newGraph |-> newGraph,
               transport |-> TransportFailed(hist)]
  /\ files' = pre.files
  /\ dirs' = pre.dirs
  /\ diskManifest' = pre.manifest
  /\ diskGraph' = pre.graph
  /\ run' = run - 1
  /\ pc' = "idle"
  /\ UNCHANGED <<site, now, env, N, cacheVars, crawlVars, hist, pre>>

NextReplay == Next \/ Replay

SpecReplay == Init /\ [][NextReplay]_vars


\* ========================================================================
\* Properties
\* ========================================================================
\* The run has ended: exit code 0 ("done") or 1 ("failed")
RunEnded == pc \in {"done", "failed"}

\* How often SmartFetcher.fetch was called for u in this run
Fetches(u) ==
  IF u \in DOMAIN hist.fetches
    THEN hist.fetches[u].cond + hist.fetches[u].plain
    ELSE 0

RECURSIVE ReachableFrom(_, _)
\* The URLs reachable from the set S through outLinks/resources edges of g
ReachableFrom(g, S) ==
  LET step == S \cup UNION {Range(getChildUrls(g, u)) : u \in S \cap DOMAIN g}
  IN IF step = S THEN S ELSE ReachableFrom(g, step)

\* ------------------------------------------------------------------------
\* C1 (as stated): within one run SmartFetcher.fetch is invoked at most
\* once for any normalized URL, under every interleaving.
C1_AtMostOnceFetch == \A u \in DOMAIN hist.fetches : Fetches(u) <= 1

\* C1 (amended): within one run every normalized URL gets at most one first
\* request; the only second call of SmartFetcher.fetch for a URL is the one
\* retry without validators that crawlUrl makes after a 304 for a URL whose
\* output file is missing, so a URL is fetched at most twice and never twice
\* with validators or twice without.
C1_OneFetchPlusOneRetry ==
  \A u \in DOMAIN hist.fetches :
    /\ hist.fetches[u].cond <= 1
    /\ hist.fetches[u].plain <= 1
    /\ Fetches(u) = 2 =>
         /\ u \in hist.retried
         /\ u \in DOMAIN pre.manifest
         /\ u \in crawled \cup inProgress

\* C1 witness: a finished run with cap 2 in which one URL was fetched twice
\* (request with validators, then the retry) and another URL once
C1_Witness ==
  /\ pc = "done"
  /\ N = 2
  /\ \E u \in crawled : Fetches(u) = 2
  /\ \E u \in crawled : Fetches(u) = 1

\* ------------------------------------------------------------------------
\* C2: finalizeAndCleanup never deletes the file urlToFilePath(u) of a URL
\* u handed to registerKnownValidUrls.
C2_EntryProtection ==
  \A u \in knownValidUrls :
    IsParseable(u) => urlToFilePath[u] \notin hist.deleted

\* ------------------------------------------------------------------------
\* C3: after finalizeAndCleanup (of a run without transport errors) every
\* file left under the output root is on
\* the ignore list of filePathToUrl, or maps to an entry URL, or maps to a
\* URL reachable from the entry URLs in the graph.
C3_ReachabilitySafety ==
  (pc \in {"saveGraph", "saveCache", "done"} /\ ~TransportFailed(hist)) =>
    \A f \in {x \in DOMAIN files : UnderRoot(x)} :
      \/ filePathToUrl[f] = None
      \/ filePathToUrl[f] \in ReachableFrom(graph, knownValidUrls)

\* ------------------------------------------------------------------------
\* C4: at most N calls of SmartFetcher.fetch are started and unresolved,
\* and inProgress holds at most N URLs, in every state of a run with cap N.
C4_BoundedParallelism ==
  /\ Cardinality(DOMAIN flight) <= N
  /\ Cardinality(inProgress) <= N

\* ------------------------------------------------------------------------
\* C5: started twice from the same output tree, the same cache files and
\* the same origin (no request ends in a transport error, no handler
\* throws), a run ends with
\* the same files, the same contents and the same new graph, whatever the
\* interleaving of its handlers.
C5_OrderIndependence ==
  (/\ first # None /\ RunEnded /\ ~first.transport /\ ~TransportFailed(hist)
   /\ hist.threw = {}) =>
    /\ first.pc = pc
    /\ first.files = files
    /\ first.newGraph = newGraph

\* ------------------------------------------------------------------------
\* C6: a complete run followed at once by a second run (origin unchanged,
\* both cache files intact, no entry past the retention window, no
\* transport error in either run, every crawled URL on the source host)
\* gives a
\* second run without a 200 download, without a file written or deleted,
\* with the same ValidatorCache entries, the same graph and no CrawlError.
C6_Idempotence ==
  (/\ RunEnded /\ run >= 2 /\ pre.after = "done" /\ pre.expired = {}
   /\ pre.clean /\ ~TransportFailed(hist)
   /\ \A u \in crawled : HostOf(u) = SourceHost) =>
    /\ hist.downloaded = {}
    /\ hist.written = {}
    /\ hist.deleted = {}
    /\ diskManifest = pre.manifest
    /\ diskGraph = pre.graph
    /\ errors = {}

\* ------------------------------------------------------------------------
\* C7: a URL u that has a ValidatorCache entry at the start of the run while
\* urlToFilePath(u) is missing is, once crawled, downloaded by exactly one
\* request without conditional headers, and its file exists afterwards
\* (looked at before the GC of the run may touch the file, in a run without
\* transport errors).
C7_MissingFileRepair ==
  pc \in {"crawl", "crawlWait", "addStart", "add", "addWait", "gc", "failed"} =>
    \A u \in crawled :
      (/\ u \in DOMAIN pre.manifest /\ urlToFilePath[u] \notin DOMAIN pre.files
       /\ ~TransportFailed(hist)) =>
        /\ hist.fetches[u].plain = 1
        /\ urlToFilePath[u] \in DOMAIN files

\* ------------------------------------------------------------------------
\* C8: a run ends in failure if and only if a CrawlError that is not
\* allowlisted was recorded at any point of the run.
C8_FailureIffError == RunEnded => ((pc = "failed") <=> (errors # {}))

C11_CommitDiscipline ==
  pc # "idle" =>
    /\ hist.wrote \in {<<>>, <<"graph">>, <<"cache">>, <<"graph", "cache">>}
    /\ "graph" \notin Range(hist.wrote) => diskGraph = pre.graph
    /\ "cache" \notin Range(hist.wrote) => diskManifest = pre.manifest
    /\ hist.wrote # <<>> =>
         /\ pc \in {"saveCache", "done"}
         /\ queue = <<>> /\ pending = <<>> /\ inProgress = {}
         /\ hist.rootErrors = {}
    /\ pc = "failed" => hist.wrote = <<>>

\* C11 witness: a second run that downloaded documents and changed the
\* validators in memory has failed, and both cache files are as it found them
C11_Witness ==
  /\ pc = "failed"
  /\ pre.manifest # EmptyMap
  /\ hist.downloaded # {}
  /\ manifest # pre.manifest
  /\ diskManifest = pre.manifest /\ diskGraph = pre.graph

\* ------------------------------------------------------------------------
\* C12: once SmartFetcher.fetch(u) has resolved with status 200, the
\* ValidatorCache entry of u holds the ETag and the Last-Modified of that
\* response, each absent when its header is absent whatever an older entry
\* held, and its lastFetched is not below the one the run found.
C12_ValidatorIntegrity ==
  pc # "idle" =>
    \A u \in hist.downloaded :
      /\ u \in DOMAIN manifest
      /\ manifest[u].etag = BodyDef(Pages(site)[Request(u)]).etag
      /\ manifest[u].lm = BodyDef(Pages(site)[Request(u)]).lm
      /\ u \in DOMAIN pre.manifest => manifest[u].at >= pre.manifest[u].at

\* ------------------------------------------------------------------------
\* C13: for every normalized URL u of the source origin, without fragment,
\* whose document the crawler wrote, filePathToUrl(urlToFilePath(u)) is u
\* again.
C13_RoundTrip ==
  \A u \in {x \in crawled : IsParseable(x) /\ x \in [path : Paths, v : STRING]} :
    (pc # "idle" /\ urlToFilePath[u] \in hist.written) =>
      filePathToUrl[urlToFilePath[u]] = u

\* ------------------------------------------------------------------------
\* C14: urlToFilePath is injective on normalized URLs: two distinct URLs
\* of the source origin (taken without fragments) that the crawler handled
\* never have the same output path.
C14_PathInjective ==
  \A u \in crawled : \A w \in crawled :
    (/\ u = normalizeUrl[u] /\ w = normalizeUrl[w] /\ u # w
     /\ {u, w} \subseteq [path : Paths, v : STRING]) =>
      urlToFilePath[u] # urlToFilePath[w]

\* The node the crawler derives from the document the origin serves at u
OriginNode(s, u) == ParseLinks(BodyDef(Pages(s)[u]), u)

\* The links of the site as the origin serves it
OriginGraph(s) == [u \in DOMAIN Pages(s) |-> OriginNode(s, u)]

\* The served URLs that the entry seed reaches through the site's links
LiveUrls == ReachableFrom(OriginGraph(site), knownValidUrls) \cap DOMAIN Pages(site)

\* ------------------------------------------------------------------------
\* C15: after the operator deleted manifest.json, graph.json or both and
\* left the output tree alone, the next run (no transport error in it or in
\* the run before) deletes no file of a URL that a
\* reachable page still links, and the graph it persists has a node for
\* every parsed document reachable from the entry seed.
C15_CacheDeletionTolerance ==
  (/\ pc = "done" /\ env \in {<<"rmManifest">>, <<"rmGraph">>, <<"rmBoth">>}
   /\ pre.clean /\ ~TransportFailed(hist)) =>
    \A u \in LiveUrls :
      /\ urlToFilePath[u] \in DOMAIN pre.files =>
           urlToFilePath[u] \notin hist.deleted
      /\ OriginNode(site, u) # Node(<<>>, <<>>) => u \in DOMAIN diskGraph

\* ------------------------------------------------------------------------
\* C16: every file the crawler creates or overwrites lies under the
\* configured output root.
C16_WritesUnderRoot == \A f \in hist.written : UnderRoot(f)

\* Every URL the modelled sites serve or link
KnownUrls ==
  UNION {DOMAIN Pages(s) : s \in SiteIds} \cup {Gone, Hook, PageQ}

\* ------------------------------------------------------------------------
\* C17: every call of SmartFetcher.fetch eventually resolves, also when
\* the origin never answers: no URL stays in flight forever.
C17_FetchResolves ==
  \A u \in KnownUrls : (u \in DOMAIN flight) ~> (u \notin DOMAIN flight)

\* ------------------------------------------------------------------------
\* C18: registerKnownValidUrls never throws, whatever strings the list
\* holds: after it returned, the seed set holds the normalized form of every
\* given URL (a string that does not parse as it was given), no exception
\* marker, and registering the same list again changes nothing.
C18_RegisterNeverThrows ==
  pc # "idle" =>
    LET urls == EntrySeed(pre.site)
    IN /\ Throw \notin knownValidUrls
       /\ \A i \in 1..Len(urls) :
            /\ normalizeUrl[urls[i]] \in knownValidUrls
            /\ ~IsParseable(urls[i]) => urls[i] \in knownValidUrls
       /\ knownValidUrls \cup registerKnownValidUrls(urls) = knownValidUrls

\* C18 witness: a run whose sitemap held a string that is not a URL has
\* registered it next to the normalized root
C18_Witness ==
  /\ pc = "crawl"
  /\ pre.site = "J"
  /\ NotAUrl \in knownValidUrls
  /\ Root \in knownValidUrls

\* The URLs the link extractor returned in this run: the targets in the
\* new graph
Extracted ==
  UNION {Range(newGraph[x].outLinks) \cup Range(newGraph[x].resources) :
           x \in DOMAIN newGraph}

\* ------------------------------------------------------------------------
\* C19: every URL the link extractor returned, every URL in the queue and
\* every URL that was fetched has the source origin; a reference to another
\* host is dropped, also when its host begins with the source host.
C19_SameOriginExtraction ==
  \A u \in Extracted \cup Range(queue) \cup DOMAIN hist.fetches :
    IsParseable(u) => HostOf(u) = SourceHost

\* The HTML documents whose body was downloaded and parsed in this run,
\* with the references the origin serves in them
ParsedHtml ==
  {d \in (hist.downloaded \ hist.retried) \cap DOMAIN Pages(pre.site) :
     /\ BodyDef(Pages(pre.site)[d]).ctype = "text/html"
     /\ ~BodyDef(Pages(pre.site)[d]).empty}

Keys == Extracted \cup crawled \cup inProgress \cup DOMAIN hist.fetches

\* ------------------------------------------------------------------------
\* C21: normalizeUrl drops the fragment: two discovered URLs that differ
\* only in their fragment are one key, so no two different edge targets,
\* done elements or fetched URLs name the same request target.
C21_FragmentDropped ==
  \A u \in Keys : \A w \in Keys :
    (IsParseable(u) /\ IsParseable(w) /\ Request(u) = Request(w)) => u = w

\* The document the origin of this run serves at u
Served(u) == BodyDef(Pages(pre.site)[Request(u)])

\* The URLs whose call of SmartFetcher.fetch at the given stage resolved
\* with the given status in this run
ResolvedWith(stage, status) ==
  {r.url : r \in {x \in hist.resolved : x.stage = stage /\ x.status = status}}

\* The URLs whose handler got a 304 for a missing file and then a 200 with
\* a body from the retry, and has finished
RetriedOk ==
  {u \in ResolvedWith("retry", 200) \cap crawled : ~Served(u).empty}

\* ------------------------------------------------------------------------
\* C22: when the retry after a 304 for a missing file returns 200, the
\* handler does what it does for a first 200: the body is written, the new
\* graph gets the node extracted from that body, and every extracted target
\* is in the queue or already handled, with or without a previous node.
C22_RetryAsFirstSuccess ==
  \A u \in RetriedOk :
    LET node == ParseLinks(Served(u), u)
    IN /\ urlToFilePath[u] \in hist.written
       /\ u \in DOMAIN newGraph
       /\ newGraph[u] = node
       /\ Range(node.outLinks \o node.resources) \subseteq hist.everQueued

\* ------------------------------------------------------------------------
\* C23: when the retry after a 304 for a missing file resolves with 404,
\* another non-success status or a transport failure (status 0), a
\* CrawlError with that URL and status is recorded unless the URL is
\* allowlisted, as for a first response.
C23_RetryAsFirstFailure ==
  \A r \in hist.resolved :
    (/\ r.stage = "retry"
     /\ r.status \notin {200, 304}
     /\ r.url \in crawled
     /\ ~IsAllowlisted(r.url)) =>
      [url |-> r.url, status |-> r.status] \in errors

\* The CrawlErrors recorded for u
ErrorsOf(u) == {e \in errors : e.url = u}

\* ------------------------------------------------------------------------
\* C24: for every URL whose fetch resolved with a status other than 200 or
\* 304 (404, another status, 0 for a transport failure), the error list
\* holds exactly one CrawlError with that URL and status, or none when the
\* URL is allowlisted; the URL is done, no file was written for it and the
\* new graph has no node for it.
C24_ErrorRecording ==
  \A r \in hist.resolved :
    r.status \notin {200, 304} =>
      /\ ErrorsOf(r.url) = IF IsAllowlisted(r.url) THEN {}
                           ELSE {[url |-> r.url, status |-> r.status]}
      /\ r.url \in crawled
      /\ urlToFilePath[r.url] \notin hist.written
      /\ r.url \notin DOMAIN newGraph

\* The URLs crawlUrl added to inProgress in this run
Started == DOMAIN hist.fetches \cup hist.threw

\* ------------------------------------------------------------------------
\* C25: no exception leaves crawlUrl, whatever the worklist element (a
\* sitemap string that is not a URL included): a failure becomes a
\* CrawlError, and every URL added to inProgress is, once its handler is
\* no longer running, out of inProgress and in crawled.
C25_WorkerContainment ==
  /\ \A u \in hist.threw : ErrorsOf(u) # {}
  /\ pc # "failed" \/ hist.threw = {}
  /\ \A u \in Started :
       u \notin DOMAIN flight => (u \in crawled /\ u \notin inProgress)

\* The URLs that wait to be handled: the queue, and the batch taken from it
\* as far as p-limit has not started its calls
Queued == Range(queue) \cup Range(pending)

\* ------------------------------------------------------------------------
\* C26: within a run a URL goes unseen -> queued -> inflight -> done: it is
\* put into the queue at most once, the sets queued, inflight and done are
\* pairwise disjoint in every state, and a URL that has left inflight is in
\* done and stays there.
C26_UrlStateMachine ==
  /\ hist.requeued = {}
  /\ Queued \cap inProgress = {}
  /\ Queued \cap crawled = {}
  /\ inProgress \cap crawled = {}
  /\ \A u \in Started : u \notin inProgress => u \in crawled

\* The main loop of crawl or of crawlAdditionalUrls is running
InLoop == pc \in {"crawl", "crawlWait", "add", "addWait"}

\* The run is past a main loop
LoopExited == pc \in {"addStart", "gc", "saveGraph", "saveCache", "done", "failed"}

\* Every fetch of this origin eventually resolves
AllAnswer == \A u \in KnownUrls : Answers(site, u)

\* ------------------------------------------------------------------------
\* C27: on an origin with finitely many URLs whose fetches all resolve, a
\* running main loop (of crawl or of crawlAdditionalUrls) is left eventually;
\* it is left only with queue and inProgress empty, and then every URL that
\* was ever put into the queue is in crawled.
C27_Termination ==
  /\ (InLoop /\ AllAnswer) ~> ~InLoop
  /\ [](LoopExited =>
          /\ queue = <<>>
          /\ inProgress = {}
          /\ hist.everQueued \subseteq crawled)

\* finalizeAndCleanup is about to start, or has started
AtOrAfterGC == pc \in {"gc", "saveGraph", "saveCache", "done"}

\* No step of crawlUrl happens: no fetch is started or resolved, no file is
\* written by a handler, the new graph and the crawled set stay as they are
NoCrawlStep ==
  /\ crawled' = crawled
  /\ inProgress' = inProgress
  /\ newGraph' = newGraph
  /\ hist'.fetches = hist.fetches
  /\ hist'.resolved = hist.resolved
  /\ hist'.written = hist.written

\* A step taken from the start of finalizeAndCleanup to the end of the run
\* is no step of crawlUrl
QuietFromGC == (pc \in {"gc", "saveGraph", "saveCache"}) => NoCrawlStep

\* ------------------------------------------------------------------------
\* C28: when finalizeAndCleanup starts, queue and inProgress are empty and
\* no handler is waiting or in flight; from then until the run has ended no
\* step of crawlUrl occurs.
C28_GCHappensAfter ==
  /\ [](AtOrAfterGC =>
          /\ queue = <<>>
          /\ pending = <<>>
          /\ inProgress = {}
          /\ flight = EmptyMap
          /\ unsettled = 0)
  /\ [][QuietFromGC]_vars

\* C28 witness: the GC of a run with cap 2 has deleted a file after three
\* handlers, one of them in crawlAdditionalUrls, had finished
C28_Witness ==
  /\ pc = "saveGraph"
  /\ N = 2
  /\ hist.deleted # {}
  /\ Cardinality(crawled) >= 3
  /\ Robots \in crawled
  /\ newGraph # EmptyMap

\* The URLs whose first request got 304 while their file was on disk, and
\* whose handler has finished
Carried == (ResolvedWith("first", 304) \cap crawled) \ hist.retried

\* ------------------------------------------------------------------------
\* C29: when fetch(u) returns 304 and the file of u is on disk, the new
\* graph gets a node for u with the outLinks and resources of the node the
\* run found for u, the handler writes no file, every child of that node is
\* queued unless it is done or in flight, and all of them have been fetched
\* when the crawl is over.
C29_CarryForward ==
  \A u \in Carried :
    /\ u \in DOMAIN pre.graph
    /\ u \in DOMAIN newGraph
    /\ newGraph[u].outLinks = pre.graph[u].outLinks
    /\ newGraph[u].resources = pre.graph[u].resources
    /\ u \notin hist.writers
    /\ Range(getChildUrls(pre.graph, u)) \subseteq crawled \cup inProgress \cup Queued
    /\ AtOrAfterGC =>
         \A c \in Range(getChildUrls(pre.graph, u)) : c \in crawled /\ Fetches(c) >= 1

\* ------------------------------------------------------------------------
\* C30: in the graph a run leaves on disk, a URL is a node only if in this
\* run its body was parsed (first response 200) or its previous node was
\* carried forward (first response 304); nodes of earlier runs for URLs that
\* were not fetched, or whose fetch failed, are gone.
C30_NodeProvenance ==
  pc = "done" =>
    \A u \in DOMAIN diskGraph :
      u \in ResolvedWith("first", 200) \cup ResolvedWith("first", 304)

\* ------------------------------------------------------------------------
\* C31: the set of reachable URLs the GC uses is the least set that holds
\* every entry URL and is closed under the outLinks and resources edges of
\* the new graph of this run (an entry or a target without a node adds
\* itself only).
C31_ReachableSet ==
  AtOrAfterGC /\ pc # "gc" =>
    hist.reachable = ReachableFrom(newGraph, knownValidUrls)

\* ------------------------------------------------------------------------
\* C32: from the reachability computation to the end of the deletions,
\* finalizeAndCleanup changes no ValidatorCache entry and no node or edge of
\* the LinkGraph (the graph stays as the setNode loop left it, and neither
\* cache file is written); it only removes files and directories under the
\* output root, and the files it leaves keep their contents.
GCFrame ==
  pc = "gc" =>
    /\ graph' = SetNodes[graph, newGraph, DOMAIN newGraph]
    /\ manifest' = manifest
    /\ cacheModified' = cacheModified
    /\ diskManifest' = diskManifest
    /\ diskGraph' = diskGraph
    /\ \A f \in DOMAIN files' : f \in DOMAIN files /\ files'[f] = files[f]
    /\ \A f \in DOMAIN files \ DOMAIN files' : UnderRoot(f)
    /\ dirs' \subseteq dirs
    /\ <<crawled, inProgress, queue, errors, knownValidUrls, newGraph>>'
         = <<crawled, inProgress, queue, errors, knownValidUrls, newGraph>>

C32_GCFrame == [][GCFrame]_vars

\* C32 witness: a GC has deleted a file and a directory while the validator
\* cache has entries and the graph holds a node outside the reachable set
C32_Witness ==
  /\ pc = "saveGraph"
  /\ hist.deleted # {}
  /\ hist.pruned # {}
  /\ manifest # EmptyMap
  /\ \E u \in DOMAIN graph : u \notin hist.reachable

\* ------------------------------------------------------------------------
\* C33: during crawl and crawlAdditionalUrls no file and no directory of the
\* output tree is removed and the graph loaded from the previous run (in
\* memory and on disk) is not modified, whatever links a re-parsed page
\* has lost; a step of a run removes a file only in finalizeAndCleanup.
CrawlLeavesTree ==
  /\ pc \in {"crawl", "crawlWait", "addStart", "add", "addWait"} =>
       /\ DOMAIN files \subseteq DOMAIN files'
       /\ dirs \subseteq dirs'
       /\ graph' = graph
       /\ diskGraph' = diskGraph
  /\ (pc \notin {"idle", "done", "failed"}
        /\ DOMAIN files \ DOMAIN files' # {}) => pc = "gc"

C33_NoDeletionWhileCrawling == [][CrawlLeavesTree]_vars

\* A page was parsed again in this run and its new node lacks a link of
\* its node of the previous run
LostLinks ==
  {u \in hist.writers \cap DOMAIN newGraph :
     RemovedLinks(graph, u, newGraph[u]) # {}}

\* C33 witness: crawlAdditionalUrls is running, a re-parsed page has lost
\* a link, and the file of the lost link is still in the output tree
C33_Witness ==
  /\ pc = "addWait"
  /\ \E u \in LostLinks :
       \E l \in RemovedLinks(graph, u, newGraph[u]) :
         IsParseable(l) /\ urlToFilePath[l] \in DOMAIN files

\* ------------------------------------------------------------------------
\* C34: after the GC has deleted files, no directory above a deleted file
\* is left empty (the walk removes each emptied directory and stops at the
\* first one that still has entries); the directories removed are empty
\* directories above deleted files, and the output root stays.
DeletedByStep == DOMAIN files \ DOMAIN files'

AboveDeleted == UNION {Ancestors[dirname[f]] : f \in DeletedByStep} \ {<<>>}

PruneStep ==
  pc = "gc" =>
    /\ \A d \in AboveDeleted : d \in dirs' => Entries(files', dirs', d) # {}
    /\ dirs \ dirs' \subseteq AboveDeleted
    /\ \A d \in dirs \ dirs' : Entries(files', dirs', d) = {}
    /\ <<>> \in dirs'

FailedUnlinks == hist.attempted \ hist.deleted

C35_DeletionFailuresContained ==
  /\ pc = "failed" => hist.attempted = {}
  /\ (pc \in {"saveGraph", "saveCache", "done"} /\ FailedUnlinks # {}) =>
       /\ hist.attempted \cap DOMAIN files = {}
       /\ hist.settle[1] = "gc"
       /\ pc \in {"saveCache", "done"} =>
            /\ hist.settle[2] = "graph"
            /\ diskGraph = graph

\* C35 witness: a run has ended with exit code 0 after a GC in which one
\* unlink failed and another marked file was deleted
C35_Witness ==
  /\ pc = "done"
  /\ FailedUnlinks # {}
  /\ hist.deleted # {}

\* ------------------------------------------------------------------------
\* C36: clearOldEntries(maxAgeDays), called when a run starts, removes
\* exactly the entries whose lastFetched is older than now minus
\* maxAgeDays, returns their number, and leaves every other entry as it
\* was; an entry fetched within the retention window stays.
ExpiryStep ==
  run' = run + 1 =>
    LET stale == {u \in DOMAIN diskManifest :
                    now - diskManifest[u].at > MaxAgeDays}
    IN /\ DOMAIN manifest' = DOMAIN diskManifest \ stale
       /\ \A u \in DOMAIN manifest' : manifest'[u] = diskManifest[u]
       /\ pre'.removed = Cardinality(stale)
       /\ cacheModified' = (stale # {})

C36_ValidatorExpiry == [][ExpiryStep]_vars

\* C36 witness: a run has started one day after the retention window of
\* the entries of the run before, and clearOldEntries removed them
C36_Witness ==
  /\ pc = "crawl"
  /\ run = 2
  /\ pre.removed >= 2
  /\ pre.expired = DOMAIN pre.manifest
  /\ manifest = EmptyMap

\* ------------------------------------------------------------------------
\* Sitemap harvesting
\* ------------------------------------------------------------------------
\* The deepest nesting of sitemap indexes that is followed below
MaxSitemapDepth == 3

\* The page URLs listed under the <urlset> of the document at u, or of any
\* sitemap reached from it through <sitemapindex> entries
RECURSIVE PagesUnder(_, _, _)
PagesUnder(s, u, depth) ==
  IF u \notin DOMAIN SitemapDocs(s) \/ depth = 0 THEN {}
  ELSE LET doc == SitemapDocs(s)[u]
       IN IF doc.kind = "urlset" THEN Range(doc.locs)
          ELSE UNION {PagesUnder(s, c, depth - 1) : c \in Range(doc.locs)}

ListedPages(s) == PagesUnder(s, SitemapXml, MaxSitemapDepth)

\* generateStaticSite harvests the sitemap as a run starts
Harvest ==
  run' = run + 1 =>
    LET returned == Range(fetchSitemapUrls(site))
    IN /\ ListedPages(site) \subseteq returned
       /\ returned \cap DOMAIN SitemapDocs(site) = {}
       /\ registerKnownValidUrls(fetchSitemapUrls(site)) \subseteq knownValidUrls'
       /\ newGraph' = EmptyMap

\* C37 (as stated): fetchSitemapUrls returns every page URL listed under a
\* <urlset> of the root sitemap or of any child sitemap reached through
\* <sitemapindex> entries at any nesting depth, returns no URL of a sitemap
\* document, and returns every page <loc> whatever its spelling; all
\* returned URLs become entry seeds and none becomes a graph edge.
C37_SitemapHarvest == [][Harvest]_vars

\* ------------------------------------------------------------------------
\* RSS write elision
\* ------------------------------------------------------------------------
\* The URLs whose first request this step answers with a 200 that has
\* text content
SavedByStep ==
  {u \in DOMAIN flight :
     /\ flight[u].stage = "first"
     /\ u \in hist'.writers \ hist.writers}

\* The body the origin serves at u as the step is taken
ServedBody(u) == Pages(site)[Request(u)]

\* The two texts are equal once <lastBuildDate> is blanked in both
SameButDate(b, c) ==
  normalizeRSSContentDateOnly(Content(b)) = normalizeRSSContentDateOnly(Content(c))

RssWrite ==
  \A u \in SavedByStep :
    LET outputPath == urlToFilePath[u]
        node == ParseLinks(BodyDef(ServedBody(u)), u)
    IN isRSSFeed[outputPath] =>
         /\ outputPath \in DOMAIN files'
         /\ IF outputPath \in DOMAIN files /\ SameButDate(ServedBody(u), files[outputPath])
              THEN files'[outputPath] = files[outputPath]
              ELSE files'[outputPath] = ServedBody(u)
         /\ u \in DOMAIN newGraph' /\ newGraph'[u] = node
         /\ \A l \in Range(node.outLinks \o node.resources) :
              l \in crawled \cup inProgress \cup Range(queue')

\* C38 (as stated): for a 200 response whose output path is an RSS feed the
\* file write is skipped when the new body and the body on disk are equal
\* after blanking the lastBuildDate element, and the body is written when
\* they differ in anything else; the links are extracted and the graph node
\* is recorded in both cases.
C38_RssWriteElision == [][RssWrite]_vars

\* ------------------------------------------------------------------------
\* Output completeness
\* ------------------------------------------------------------------------
\* The crawled URLs for which a call of SmartFetcher.fetch resolved with
\* 200 or 304 in this run
CrawledOk ==
  {u \in crawled :
     IsParseable(u) /\ \E r \in hist.resolved : r.url = u /\ r.status \in {200, 304}}

\* C39 (as stated): after a run that completes without any recorded
\* CrawlError, the file urlToFilePath(u) exists on disk for every URL u that
\* ended in crawled with a 200 or 304 outcome; the GC of the run deletes no
\* file that the same run wrote or confirmed for a crawled URL.
C39_OutputCompleteness ==
  (pc = "done" /\ errors = {}) =>
    /\ \A u \in CrawledOk : urlToFilePath[u] \in DOMAIN files
    /\ hist.deleted \cap {urlToFilePath[u] : u \in CrawledOk} = {}

\* ------------------------------------------------------------------------
\* The batch barrier
\* ------------------------------------------------------------------------
\* The loop condition of crawl or of crawlAdditionalUrls is about to be
\* evaluated
AtLoopTest == pc \in {"crawl", "add"}

\* No handler is running and none is waiting to start
BatchOver ==
  inProgress = {} /\ flight = EmptyMap /\ pending = <<>> /\ unsettled = 0

\* queue is a prefix of queue'
QueueGrows == Len(queue) <= Len(queue') /\ SubSeq(queue', 1, Len(queue)) = queue

BarrierStep ==
  \* the sleep branch is not taken
  /\ AtLoopTest => ~(queue = <<>> /\ inProgress # {})
  \* a batch is taken from the queue at a loop test only, as a whole
  /\ (pending' # pending /\ (pending = <<>> \/ pending' # Tail(pending))) =>
        (AtLoopTest /\ BatchOver /\ pending' = queue /\ queue' = <<>>)
  \* a handler starts for the head of the batch only
  /\ \A u \in inProgress' \ inProgress :
        pending # <<>> /\ u = normalizeUrl[Head(pending)]
  \* what the handlers of a batch enqueue stays in the queue until the
  \* batch is over
  /\ (pc \in {"crawlWait", "addWait"} /\ pc' # "idle") => QueueGrows

\* C40: every time the main loop of crawl or crawlAdditionalUrls evaluates
\* its condition inProgress is empty, the batch having been awaited in full;
\* the branch that sleeps while queue is empty and inProgress is not is
\* never taken; URLs enqueued during a batch are dispatched only after every
\* handler of that batch has finished.
C40_BatchBarrier == [](AtLoopTest => BatchOver) /\ [][BarrierStep]_vars

\* A loop test after a batch of two concurrent handlers, with URLs that
\* the batch enqueued waiting in the queue
C40_Witness ==
  /\ AtLoopTest
  /\ N = 2
  /\ Cardinality(crawled) >= 3
  /\ queue # <<>>
  /\ Range(queue) \cap crawled = {}

====
